---- MODULE Spec2Model ----
(***************************************************************************)
(* Model of api/api_cgo.c: the cgo callback adapter of sdrplay-go.          *)
(*                                                                         *)
(* The file holds three trampolines (cgoStreamACallback,                   *)
(* cgoStreamBCallback, cgoEventCallback) that forward a native driver      *)
(* callback to the exported Go functions, and wrapper_api_Init, which      *)
(* fills a stack-local sdrplay_api_CallbackFnsT and hands its address to   *)
(* sdrplay_api_Init.                                                       *)
(*                                                                         *)
(* Machine words are sequences of 16-bit limbs, least significant first,   *)
(* so that 32-bit and 64-bit quantities keep their width: a cast is a      *)
(* resize of the limb sequence.                                            *)
(***************************************************************************)
EXTENDS Integers, Sequences, FiniteSets, TLC

(***************************************************************************)
(* Bounds of the exploration.                                              *)
(***************************************************************************)
\* The calls of wrapper_api_Init and the callback deliveries of one run.
MaxOps == 4

(***************************************************************************)
(* Machine representation.                                                 *)
(***************************************************************************)
LimbBase == 2^16
HalfBase == 2^15

\* A C pointer (short *, sdrplay_api_StreamCbParamsT *, void *, HANDLE).
PtrLimbs == 4
\* GoUintptr (size_t).
UintptrLimbs == 4
\* C unsigned int, GoUint32, GoInt32, and the driver's enumerations.
IntLimbs == 2

RECURSIVE Zeros(_)
Zeros(n) == IF n = 0 THEN << >> ELSE <<0>> \o Zeros(n - 1)

\* Conversion of an unsigned limb sequence to a type of n limbs:
\* truncation modulo 2^(16n), zero extension when the target is wider.
Resize(v, n) ==
    IF Len(v) >= n THEN SubSeq(v, 1, n) ELSE v \o Zeros(n - Len(v))

\* The 32-bit object representation of an enumeration value c.
Bits32(c) ==
    LET lo == c % LimbBase
        hi == ((c - lo) \div LimbBase) % LimbBase
    IN  <<lo, hi>>

\* The signed value of a 32-bit pattern (two's complement).
SignedVal(b) ==
    IF b[2] >= HalfBase
    THEN (b[2] - LimbBase) * LimbBase + b[1]
    ELSE b[2] * LimbBase + b[1]

\* (GoUintptr)p for a pointer p.
ToGoUintptr_Narrow(p) == Resize(Resize(p, IntLimbs), UintptrLimbs)
ToGoUintptr(p) == Resize(p, UintptrLimbs)

\* (GoUint32)n for an unsigned int n.
ToGoUint32(n) == Resize(n, IntLimbs)

\* (GoInt32)e for an enumeration value e.
ToGoInt32(e) == SignedVal(Resize(Bits32(e), IntLimbs))

\* (void*)dev for a HANDLE dev.
ToVoidPtr(h) == Resize(h, PtrLimbs)

\* The address a handle stands for (the host's uintptr -> pointer).
FromHandle(h) == Resize(h, PtrLimbs)

(***************************************************************************)
(* Values the driver hands to the adapter.                                 *)
(***************************************************************************)
NullPtr == Zeros(PtrLimbs)

\* Device handles (HANDLE) of two devices.
Devs == { <<43981, 0, 0, 0>>, <<4096, 0, 1, 0>> }

\* Native stream deliveries without the context:
\* xi, xq, params, numSamples, reset.
StreamSamples ==
    { [xi |-> <<4096, 0, 0, 0>>, xq |-> <<8192, 0, 0, 0>>,
       params |-> <<12288, 0, 0, 0>>,
       numSamples |-> <<256, 0>>, reset |-> <<0, 0>>],
      [xi |-> <<65520, 65535, 32767, 0>>, xq |-> <<0, 1, 32768, 65535>>,
       params |-> <<8, 0, 2, 0>>,
       numSamples |-> <<65535, 65535>>, reset |-> <<1, 0>>] }

\* Native event deliveries without the context: eventId, tuner, params.
EventSamples ==
    { [eventId |-> 1, tuner |-> 2, params |-> <<16384, 0, 0, 0>>],
      [eventId |-> -2147483647 - 1, tuner |-> 2147483647,
       params |-> <<24, 7, 65535, 32767>>] }

\* Status codes of sdrplay_api_Init (sdrplay_api_ErrT).
Success == 0
Statuses == {Success, 7}


StreamSlots == {"StreamACbFn", "StreamBCbFn"}
Slots == StreamSlots \cup {"EventCbFn"}
StreamEntries == {"cgoStreamACallback", "cgoStreamBCallback"}
Entries == StreamEntries \cup {"cgoEventCallback"}
Indeterminate == "indeterminate"
SlotValues == Entries \cup {Indeterminate}

\* The driver's threads: one per callback slot it serves.
Threads == {"streamA", "streamB", "event"}
SlotOf(t) ==
    CASE t = "streamA" -> "StreamACbFn"
      [] t = "streamB" -> "StreamBCbFn"
      [] t = "event" -> "EventCbFn"

None == [none |-> TRUE]

VARIABLES
    wframe,     \* the activation of wrapper_api_Init, or None
    drv,        \* the driver: per device, its session
    frames,     \* per driver thread, the adapter activation it is in, or None
    hostLog,    \* the calls the host receivers have observed, in order
    drvLog,     \* the native callbacks the driver has delivered, in order
    initLog,    \* the invocations of sdrplay_api_Init, in order
    retLog,     \* the returns of wrapper_api_Init, in order
    faulted     \* the process has faulted

vars == <<wframe, drv, frames, hostLog, drvLog, initLog, retLog, faulted>>

(***************************************************************************)
(* wrapper_api_Init                                                        *)
(***************************************************************************)
\* sdrplay_api_CallbackFnsT cbFuncs; an automatic object, not initialised.
UninitTable == [s \in Slots |-> Indeterminate]

\* The three assignments to cbFuncs.
PopulateTable_NoEvent(tbl) ==
    [tbl EXCEPT !.StreamACbFn = "cgoStreamACallback",
                !.StreamBCbFn = "cgoStreamBCallback"]
PopulateTable(tbl) ==
    [tbl EXCEPT !.StreamACbFn = "cgoStreamACallback",
                !.StreamBCbFn = "cgoStreamBCallback",
                !.EventCbFn = "cgoEventCallback"]

FullTable ==
    [StreamACbFn |-> "cgoStreamACallback",
     StreamBCbFn |-> "cgoStreamBCallback",
     EventCbFn |-> "cgoEventCallback"]

\* The arguments of sdrplay_api_Init(dev, &cbFuncs, (void*)dev).
InitArgs_NullContext(dev) ==
    [dev |-> dev, cbFns |-> "&cbFuncs", cbContext |-> NullPtr]
InitArgs(dev) ==
    [dev |-> dev, cbFns |-> "&cbFuncs", cbContext |-> ToVoidPtr(dev)]

\* return sdrplay_api_Init(...): the value handed back to the caller.
ReturnStatus_Collapse(st) == IF st = Success THEN Success ELSE 1
ReturnStatus(st) == st

\* What the wrapper does when the driver's init has returned st.
AfterDriverInit_Retry(st) == IF st = Success THEN "return" ELSE "call"
AfterDriverInit(st) == "return"

\* The operations begun so far: calls of wrapper_api_Init and deliveries.
Ops == Len(retLog) + (IF wframe # None THEN 1 ELSE 0) + Len(drvLog)

\* The identity of the activation: the n-th call of wrapper_api_Init.
CallNo == Len(retLog) + 1

\* Entry of wrapper_api_Init up to the call of sdrplay_api_Init.
wrapper_api_Init(dev) ==
    /\ ~faulted
    /\ wframe = None
    /\ Ops < MaxOps
    /\ wframe' = [dev |-> dev,
                  cbFuncs |-> PopulateTable(UninitTable),
                  args |-> InitArgs(dev),
                  pc |-> "call",
                  st |-> Success,
                  drvCalls |-> 0,
                  no |-> CallNo]
    /\ UNCHANGED <<drv, frames, hostLog, drvLog, initLog, retLog, faulted>>

ClosedSession ==
    [open |-> FALSE, ctx |-> NullPtr, byAddr |-> FALSE,
     fns |-> UninitTable, frame |-> 0]

\* The driver's sdrplay_api_Init: it reads the table behind cbFns, and on
\* success opens the session, keeping the context and either a copy of the
\* table or the address it was given.
sdrplay_api_Init(st, keepAddr) ==
    /\ ~faulted
    /\ keepAddr => st = Success
    /\ wframe # None
    /\ wframe.pc = "call"
    /\ LET a == wframe.args
           seen == wframe.cbFuncs
       IN  /\ initLog' = Append(initLog,
                  [dev |-> a.dev, cbFns |-> seen, cbContext |-> a.cbContext,
                   st |-> st, no |-> wframe.no])
           /\ drv' = IF st = Success
                     THEN [drv EXCEPT ![a.dev] =
                              [open |-> TRUE, ctx |-> a.cbContext,
                               byAddr |-> keepAddr,
                               fns |-> IF keepAddr THEN UninitTable ELSE seen,
                               frame |-> wframe.no]]
                     ELSE drv
    /\ wframe' = [wframe EXCEPT !.pc = "ret", !.st = st,
                                !.drvCalls = wframe.drvCalls + 1]
    /\ UNCHANGED <<frames, hostLog, drvLog, retLog, faulted>>

\* The return of wrapper_api_Init: cbFuncs ends with the activation.
wrapper_api_Init_Return ==
    /\ ~faulted
    /\ wframe # None
    /\ wframe.pc = "ret"
    /\ IF AfterDriverInit(wframe.st) = "return"
       THEN /\ retLog' = Append(retLog,
                    [dev |-> wframe.dev, drvSt |-> wframe.st,
                     ret |-> ReturnStatus(wframe.st),
                     drvCalls |-> wframe.drvCalls])
            /\ wframe' = None
       ELSE /\ wframe' = [wframe EXCEPT !.pc = "call"]
            /\ UNCHANGED retLog
    /\ UNCHANGED <<drv, frames, hostLog, drvLog, initLog, faulted>>

(***************************************************************************)
(* The driver's callback delivery                                          *)
(***************************************************************************)
\* The storage of the table a session was initialised with still exists.
TableLive(d) == wframe # None /\ wframe.no = drv[d].frame

\* The values the driver can find when it reads slot s of session d: its
\* copy; the table behind the address it kept; anything once that table's
\* storage has ended.
ReadSlot(d, s) ==
    IF ~drv[d].byAddr THEN {drv[d].fns[s]}
    ELSE IF TableLive(d) THEN {wframe.cbFuncs[s]}
    ELSE SlotValues

\* Reading a slot of session d is a defined read.
SlotDefined(d) == ~drv[d].byAddr \/ TableLive(d)

\* A function the driver can call through slot s with the slot's signature.
Callable(s, fn) ==
    IF s \in StreamSlots THEN fn \in StreamEntries ELSE fn = "cgoEventCallback"

NativeArgs(d, x) ==
    IF "eventId" \in DOMAIN x
    THEN [eventId |-> x.eventId, tuner |-> x.tuner, params |-> x.params,
          cbContext |-> drv[d].ctx]
    ELSE [xi |-> x.xi, xq |-> x.xq, params |-> x.params,
          numSamples |-> x.numSamples, reset |-> x.reset,
          cbContext |-> drv[d].ctx]

SamplesOf(s) == IF s \in StreamSlots THEN StreamSamples ELSE EventSamples

\* Driver thread t calls the function in slot s of session d.
DriverDeliver(t, d, s) ==
    /\ ~faulted
    /\ s = SlotOf(t)
    /\ frames[t] = None
    /\ drv[d].open
    /\ Ops < MaxOps
    /\ \E fn \in ReadSlot(d, s), x \in SamplesOf(s) :
         /\ Callable(s, fn)
         /\ frames' = [frames EXCEPT ![t] =
                          [entry |-> fn, args |-> NativeArgs(d, x),
                           id |-> Len(drvLog) + 1]]
         /\ drvLog' = Append(drvLog,
                          [thread |-> t, dev |-> d, slot |-> s, entry |-> fn,
                           args |-> NativeArgs(d, x),
                           defined |-> SlotDefined(d)])
    /\ UNCHANGED <<wframe, drv, hostLog, initLog, retLog, faulted>>

\* Driver thread t calls through a slot that holds no function of the
\* slot's signature.
DriverFault(t, d, s) ==
    /\ ~faulted
    /\ s = SlotOf(t)
    /\ frames[t] = None
    /\ drv[d].open
    /\ Ops < MaxOps
    /\ \E fn \in ReadSlot(d, s) : ~Callable(s, fn)
    /\ faulted' = TRUE
    /\ UNCHANGED <<wframe, drv, frames, hostLog, drvLog, initLog, retLog>>

(***************************************************************************)
(* The adapter entry points                                                *)
(***************************************************************************)
\* The most recent delivery with the signature of thread t's.
LastSameKind(fr, log, t) ==
    LET I == {i \in 1..Len(log) :
                 (log[i].entry \in StreamEntries)
                     <=> (fr[t].entry \in StreamEntries)}
    IN  log[CHOOSE i \in I : \A j \in I : j <= i]

\* The parameters an adapter activation reads: its own.
AdapterArgs_Static(fr, log, t) == LastSameKind(fr, log, t).args
AdapterArgs(fr, log, t) == fr[t].args

StreamArgs(a) ==
    << ToGoUintptr(a.xi), ToGoUintptr(a.xq), ToGoUintptr(a.params),
       ToGoUint32(a.numSamples), ToGoUint32(a.reset),
       ToGoUintptr(a.cbContext) >>

\* streamACallback((GoUintptr)xi, ..., (GoUintptr)cbContext)
cgoStreamACallbackCall_ToB(a) ==
    [receiver |-> "streamBCallback", args |-> StreamArgs(a)]
cgoStreamACallbackCall(a) ==
    [receiver |-> "streamACallback", args |-> StreamArgs(a)]

\* streamBCallback((GoUintptr)xi, ..., (GoUintptr)cbContext)
cgoStreamBCallbackCall(a) ==
    [receiver |-> "streamBCallback", args |-> StreamArgs(a)]

\* eventCallback((GoInt32)eventId, (GoInt32)tuner, (GoUintptr)params,
\*               (GoUintptr)cbContext)
cgoEventCallbackCall_Swapped(a) ==
    [receiver |-> "eventCallback",
     args |-> << ToGoInt32(a.tuner), ToGoInt32(a.eventId),
                 ToGoUintptr(a.params), ToGoUintptr(a.cbContext) >>]
cgoEventCallbackCall(a) ==
    [receiver |-> "eventCallback",
     args |-> << ToGoInt32(a.eventId), ToGoInt32(a.tuner),
                 ToGoUintptr(a.params), ToGoUintptr(a.cbContext) >>]

\* The host calls one activation of an adapter makes: the one statement of
\* its body.
AdapterCalls_Twice(c) == <<c, c>>
AdapterCalls(c) == <<c>>

\* The body of an adapter run by thread t, and its return to the driver.
Forward(t, c) ==
    /\ hostLog' = hostLog \o
           AdapterCalls([receiver |-> c.receiver, args |-> c.args,
                         thread |-> t, id |-> frames[t].id])
    /\ frames' = [frames EXCEPT ![t] = None]
    /\ UNCHANGED <<wframe, drv, drvLog, initLog, retLog, faulted>>

cgoStreamACallback(t) ==
    /\ ~faulted
    /\ frames[t] # None
    /\ frames[t].entry = "cgoStreamACallback"
    /\ Forward(t, cgoStreamACallbackCall(AdapterArgs(frames, drvLog, t)))

cgoStreamBCallback(t) ==
    /\ ~faulted
    /\ frames[t] # None
    /\ frames[t].entry = "cgoStreamBCallback"
    /\ Forward(t, cgoStreamBCallbackCall(AdapterArgs(frames, drvLog, t)))

cgoEventCallback(t) ==
    /\ ~faulted
    /\ frames[t] # None
    /\ frames[t].entry = "cgoEventCallback"
    /\ Forward(t, cgoEventCallbackCall(AdapterArgs(frames, drvLog, t)))

(***************************************************************************)
(* The specification                                                       *)
(***************************************************************************)
Init ==
    /\ wframe = None
    /\ drv = [d \in Devs |-> ClosedSession]
    /\ frames = [t \in Threads |-> None]
    /\ hostLog = << >>
    /\ drvLog = << >>
    /\ initLog = << >>
    /\ retLog = << >>
    /\ faulted = FALSE

Next ==
    \/ \E dev \in Devs : wrapper_api_Init(dev)
    \/ \E st \in Statuses, keepAddr \in BOOLEAN : sdrplay_api_Init(st, keepAddr)
    \/ wrapper_api_Init_Return
    \/ \E t \in Threads, d \in Devs, s \in Slots : DriverDeliver(t, d, s)
    \/ \E t \in Threads, d \in Devs, s \in Slots : DriverFault(t, d, s)
    \/ \E t \in Threads : cgoStreamACallback(t)
    \/ \E t \in Threads : cgoStreamBCallback(t)
    \/ \E t \in Threads : cgoEventCallback(t)

Spec == Init /\ [][Next]_vars

(***************************************************************************)
(* Properties                                                              *)
(***************************************************************************)
HostIdx == 1..Len(hostLog)
\* The native delivery a host call was made for.
DeliveryOf(e) == drvLog[e.id]

StreamReceivers == {"streamACallback", "streamBCallback"}
StreamCalls == {i \in HostIdx : hostLog[i].receiver \in StreamReceivers}
EventCalls == {i \in HostIdx : hostLog[i].receiver = "eventCallback"}

\* C1: a delivery that enters cgoStreamACallback reaches streamACallback and
\* no other receiver, one that enters cgoStreamBCallback reaches
\* streamBCallback and no other; the table binds slot A to the first and
\* slot B to the second, so every delivery made through a defined read of
\* slot A reaches streamACallback and of slot B streamBCallback.
C1_ChannelRouting ==
    /\ \A i \in HostIdx :
         LET e == hostLog[i]
             dl == DeliveryOf(e)
         IN  /\ dl.entry = "cgoStreamACallback"
                    => e.receiver = "streamACallback"
             /\ dl.entry = "cgoStreamBCallback"
                    => e.receiver = "streamBCallback"
             /\ dl.defined /\ dl.slot = "StreamACbFn"
                    => e.receiver = "streamACallback"
             /\ dl.defined /\ dl.slot = "StreamBCbFn"
                    => e.receiver = "streamBCallback"
    /\ wframe # None =>
         /\ wframe.cbFuncs.StreamACbFn = "cgoStreamACallback"
         /\ wframe.cbFuncs.StreamBCbFn = "cgoStreamBCallback"

C1_Witness ==
    /\ \E i \in HostIdx : /\ DeliveryOf(hostLog[i]).slot = "StreamACbFn"
                          /\ hostLog[i].receiver = "streamACallback"
    /\ \E i \in HostIdx : /\ DeliveryOf(hostLog[i]).slot = "StreamBCbFn"
                          /\ hostLog[i].receiver = "streamBCallback"

\* C2: a stream receiver is called with six arguments: the handles of xi,
\* xq and params, numSamples, reset, and the handle of cbContext, in this
\* order; numSamples and reset are the delivered 32-bit values and every
\* handle stands for exactly the delivered address.
C2_StreamArgsPreserved ==
    \A i \in StreamCalls :
        LET e == hostLog[i]
            a == DeliveryOf(e).args
        IN  /\ Len(e.args) = 6
            /\ FromHandle(e.args[1]) = a.xi
            /\ FromHandle(e.args[2]) = a.xq
            /\ FromHandle(e.args[3]) = a.params
            /\ e.args[4] = a.numSamples
            /\ e.args[5] = a.reset
            /\ FromHandle(e.args[6]) = a.cbContext
            /\ \A k \in {1, 2, 3, 6} : Len(e.args[k]) = UintptrLimbs
            /\ \A k \in {4, 5} : Len(e.args[k]) = IntLimbs

\* The delivery (0x1000, 0x2000, _, 256, 0, 0xABCD) observed by the
\* stream-A receiver, and a delivery of addresses above 2^32 with
\* numSamples 2^32 - 1.
C2_Witness ==
    /\ \E i \in StreamCalls :
         /\ hostLog[i].receiver = "streamACallback"
         /\ hostLog[i].args[1] = <<4096, 0, 0, 0>>
         /\ hostLog[i].args[2] = <<8192, 0, 0, 0>>
         /\ hostLog[i].args[4] = <<256, 0>>
         /\ hostLog[i].args[5] = <<0, 0>>
         /\ hostLog[i].args[6] = <<43981, 0, 0, 0>>
    /\ \E i \in StreamCalls :
         /\ hostLog[i].args[2] = <<0, 1, 32768, 65535>>
         /\ hostLog[i].args[4] = <<65535, 65535>>

\* C3: eventCallback is called with the delivered eventId first and the
\* delivered tuner second, as the same signed 32-bit values, then the
\* handles of params and cbContext, each standing for the delivered address.
C3_EventArgsPreserved ==
    \A i \in EventCalls :
        LET e == hostLog[i]
            a == DeliveryOf(e).args
        IN  /\ Len(e.args) = 4
            /\ e.args[1] = a.eventId
            /\ e.args[2] = a.tuner
            /\ FromHandle(e.args[3]) = a.params
            /\ FromHandle(e.args[4]) = a.cbContext

C3_Witness ==
    /\ \E i \in EventCalls : /\ hostLog[i].args[1] = -2147483647 - 1
                             /\ hostLog[i].args[2] = 2147483647
    /\ \E i \in EventCalls : /\ hostLog[i].args[1] = 1
                             /\ hostLog[i].args[2] = 2

\* The status the driver returned to the n-th call of wrapper_api_Init.
DriverStatusOf(n) ==
    LET J == {j \in 1..Len(initLog) : initLog[j].no = n}
    IN  initLog[CHOOSE j \in J : \A k \in J : k <= j].st

\* C4: every call of wrapper_api_Init returns the status the driver's
\* sdrplay_api_Init returned to it, whatever the status.
C4_StatusPassedThrough ==
    \A n \in 1..Len(retLog) : retLog[n].ret = DriverStatusOf(n)

C4_Witness ==
    /\ \E n \in 1..Len(retLog) : retLog[n].ret = 7 /\ DriverStatusOf(n) = 7
    /\ \E n \in 1..Len(retLog) : retLog[n].ret = Success

\* C5: whenever sdrplay_api_Init is invoked, and for as long as the call of
\* wrapper_api_Init lasts, the three slots of cbFuncs hold the three adapter
\* entry points; so the table of every session the driver opens, and every
\* function the driver calls through a defined read of a slot, is the
\* adapter entry point of that slot.
C5_TablePopulatedBeforeInit ==
    /\ wframe # None => wframe.cbFuncs = FullTable
    /\ \A j \in 1..Len(initLog) : initLog[j].cbFns = FullTable
    /\ \A d \in Devs :
         drv[d].open /\ SlotDefined(d) =>
             \A s \in Slots : ReadSlot(d, s) = {FullTable[s]}
    /\ \A i \in 1..Len(drvLog) :
         drvLog[i].defined => drvLog[i].entry = FullTable[drvLog[i].slot]

\* The driver has opened a session and delivered through each of the slots.
C5_Witness ==
    /\ \E d \in Devs : drv[d].open
    /\ \A s \in Slots : \E i \in 1..Len(drvLog) :
         drvLog[i].slot = s /\ drvLog[i].defined

\* C6: while a session is open, the callback table that wrapper_api_Init
\* populated for it still exists.
C6_TableValidForSession ==
    \A d \in Devs : drv[d].open => TableLive(d)

\* C7: the driver's init is given the device handle as context, and every
\* callback of a session reaches its host receiver with a context handle
\* that stands for the device handle of that session.
C7_ContextIsDevice ==
    /\ \A j \in 1..Len(initLog) : initLog[j].cbContext = initLog[j].dev
    /\ \A i \in HostIdx :
         LET e == hostLog[i]
         IN  FromHandle(e.args[Len(e.args)]) = DeliveryOf(e).dev

\* Callbacks of two sessions with different device handles were observed.
C7_Witness ==
    \E i, k \in HostIdx :
        /\ DeliveryOf(hostLog[i]).dev # DeliveryOf(hostLog[k]).dev
        /\ hostLog[i].args[Len(hostLog[i].args)] = <<43981, 0, 0, 0>>
        /\ hostLog[k].args[Len(hostLog[k].args)] = <<4096, 0, 1, 0>>

\* The deliveries made on thread t, and the deliveries the host has observed
\* from thread t, each in its order.
RECURSIVE DeliveredOn(_, _)
DeliveredOn(t, n) ==
    IF n = 0 THEN << >>
    ELSE DeliveredOn(t, n - 1)
             \o (IF drvLog[n].thread = t THEN <<n>> ELSE << >>)
RECURSIVE ObservedOn(_, _)
ObservedOn(t, n) ==
    IF n = 0 THEN << >>
    ELSE ObservedOn(t, n - 1)
             \o (IF hostLog[n].thread = t THEN <<hostLog[n].id>> ELSE << >>)

AllButLast(q) == SubSeq(q, 1, Len(q) - 1)

\* C8: on every thread the host has observed exactly the deliveries made,
\* each once and in the order of delivery, all of them once the adapter has
\* returned and all but the one in progress while an adapter is active.
C8_OneCallPerDeliveryInOrder ==
    \A t \in Threads :
        LET del == DeliveredOn(t, Len(drvLog))
            obs == ObservedOn(t, Len(hostLog))
        IN  IF frames[t] = None THEN obs = del
            ELSE /\ del # << >>
                 /\ del[Len(del)] = frames[t].id
                 /\ obs = AllButLast(del)

\* Two deliveries with different arguments on one thread, both observed.
C8_Witness ==
    \E t \in Threads :
        LET obs == ObservedOn(t, Len(hostLog))
        IN  /\ frames[t] = None
            /\ Len(obs) >= 2
            /\ drvLog[obs[1]].args # drvLog[obs[2]].args

\* The arguments a host receiver must observe for a native delivery.
Observed(a) ==
    IF "eventId" \in DOMAIN a
    THEN <<a.eventId, a.tuner, a.params, a.cbContext>>
    ELSE <<a.xi, a.xq, a.params, a.numSamples, a.reset, a.cbContext>>

\* The addresses and values a host call carries.
Carried(e) ==
    IF e.receiver = "eventCallback"
    THEN <<e.args[1], e.args[2], FromHandle(e.args[3]), FromHandle(e.args[4])>>
    ELSE <<FromHandle(e.args[1]), FromHandle(e.args[2]),
           FromHandle(e.args[3]), e.args[4], e.args[5],
           FromHandle(e.args[6])>>

\* C9: whatever the interleaving of the driver's threads, every host call is
\* made on the thread of its own delivery and carries the arguments of that
\* delivery, never those of a delivery in progress on another thread.
C9_NoMixingAcrossThreads ==
    \A i \in HostIdx :
        LET e == hostLog[i]
            dl == DeliveryOf(e)
        IN  /\ e.thread = dl.thread
            /\ Carried(e) = Observed(dl.args)

\* The three threads were inside their adapters at the same time, with
\* different arguments on the two stream threads, and the host calls were
\* made in the reverse of the order of entry.
C9_Witness ==
    /\ Len(hostLog) = 3
    /\ hostLog[1].id = 3 /\ hostLog[2].id = 2 /\ hostLog[3].id = 1
    /\ {hostLog[i].thread : i \in HostIdx} = Threads
    /\ \E i, k \in StreamCalls : hostLog[i].args # hostLog[k].args

\* C10: every call of wrapper_api_Init invokes sdrplay_api_Init once,
\* whatever status comes back, and every invocation, also a later one for
\* the same device, is given a table of the same three adapter entry points
\* and the device handle as context.
C10_OneDriverInitPerCall ==
    /\ \A n \in 1..Len(retLog) : retLog[n].drvCalls = 1
    /\ wframe # None => wframe.drvCalls = (IF wframe.pc = "ret" THEN 1 ELSE 0)
    /\ Len(initLog) = Len(retLog)
                        + (IF wframe # None /\ wframe.pc = "ret" THEN 1 ELSE 0)
    /\ \A j, k \in 1..Len(initLog) :
         initLog[j].dev = initLog[k].dev =>
             /\ initLog[j].cbFns = initLog[k].cbFns
             /\ initLog[j].cbContext = initLog[k].cbContext

\* A call that came back with an error, then a second call for the same
\* device.
C10_Witness ==
    /\ Len(retLog) >= 2
    /\ retLog[1].dev = retLog[2].dev
    /\ retLog[1].ret = 7
    /\ Len(initLog) = 2

====
